---- MODULE Spec2Model ----
(***************************************************************************)
(* Relay control of dkrfs (remote, SNMP) and udinfs (serial, UDIN ASCII    *)
(* protocol): the FUSE handlers, the device exchange under the mutex, the  *)
(* serial identification and the consistency check, with the device as a   *)
(* nondeterministic environment.                                           *)
(***************************************************************************)
EXTENDS Integers, Sequences, FiniteSets, TLC

\* ------------------------------------------------------------------ bounds

\* worker threads FUSE runs the handlers on
NumThreads == 2
\* callers address the channels 0..MaxChan-1 (and the boundary indices)
MaxChan == 2
\* write/read sizes are drawn from 0..MaxSize
MaxSize == 1
\* what the clock reads, in seconds since the epoch, while requests are served
Now == 1
\* the tries _read_device makes before it gives up: 100 in the program
MaxTries == 3

\* ------------------------------------------------------- program constants

ENOENT == 2
EIO == 5

relay_off == 0
relay_on == 1

\* --------------------------------------------------------------- characters

NUL == "NUL"
CR == "\r"
LF == "\n"

Digits == <<"0", "1", "2", "3", "4", "5", "6", "7", "8", "9">>

IsDigit(c) == \E k \in 1..10 : Digits[k] = c

DigitVal(c) == (CHOOSE k \in 1..10 : Digits[k] = c) - 1

\* the character code, for the characters a path or a line is built from
Ord(c) ==
    IF IsDigit(c) THEN 48 + DigitVal(c)
    ELSE CASE c = NUL -> 0
           [] c = LF -> 10
           [] c = CR -> 13
           [] c = " " -> 32
           [] c = "-" -> 45
           [] c = "." -> 46
           [] c = "/" -> 47
           [] c = "r" -> 114
           [] c = "x" -> 120
           [] OTHER -> 63

\* s[k] of a C string (0-based); the terminator follows the last character
CharAt(s, k) == IF k < Len(s) THEN s[k + 1] ELSE NUL

\* the C string held by a buffer: the characters before the first NUL
RECURSIVE CStr(_)
CStr(s) ==
    IF s = <<>> \/ Head(s) = NUL THEN <<>> ELSE <<Head(s)>> \o CStr(Tail(s))

\* printf("%d")
RECURSIVE Decimal(_)
Decimal(n) ==
    IF n < 0 THEN <<"-">> \o Decimal(-n)
    ELSE IF n < 10 THEN <<Digits[n + 1]>>
    ELSE Decimal(n \div 10) \o <<Digits[(n % 10) + 1]>>

RECURSIVE DigitsValue(_, _)
DigitsValue(s, acc) ==
    IF s = <<>> \/ ~IsDigit(Head(s)) THEN acc
    ELSE DigitsValue(Tail(s), acc * 10 + DigitVal(Head(s)))

RECURSIVE SkipSpace(_)
SkipSpace(s) ==
    IF s # <<>> /\ Head(s) \in {" ", CR, LF} THEN SkipSpace(Tail(s)) ELSE s

\* atoi: leading white space, an optional sign, then digits up to the first
\* character that is none; 0 when there is no digit
Atoi(str) ==
    LET s == SkipSpace(str)
    IN  IF s # <<>> /\ Head(s) = "-" THEN -DigitsValue(Tail(s), 0)
        ELSE IF s # <<>> /\ Head(s) = "+" THEN DigitsValue(Tail(s), 0)
        ELSE DigitsValue(s, 0)

RECURSIVE Pow2(_)
Pow2(i) == IF i = 0 THEN 1 ELSE 2 * Pow2(i - 1)

\* (x & (1 << i)) != 0, for i < 31, x a two's complement int
BitSet(x, i) ==
    IF x >= 0 THEN (x \div Pow2(i)) % 2 = 1
    ELSE ((-x - 1) \div Pow2(i)) % 2 = 0

\* ------------------------------------------------------------------ state

VARIABLES
    variant,      \* "serial" (udinfs) or "remote" (dkrfs): which program runs
    num_relays,   \* _num_relays
    relays,       \* udinfs _relays: the relay state cache
    ttyfd,        \* udinfs _ttyfd
    mutex,        \* the static mutex: 0 when free, else the holder
    oids,         \* dkrfs _oids: the address table
    pc,           \* where each process stands
    site,         \* the _send_command call a process is in
    ch,           \* the handler's channel / relay_num
    val,          \* the relay_state being written
    size,         \* the handler's size argument
    ret,          \* the handler's return value
    out,          \* the byte a read handler put in its buffer
    all_state,    \* the local all_state of _init and _switch_relay
    dev,          \* the UDIN device: the bit mask of the relays that are on
    mib,          \* the DAEnetIP2 device: the addresses whose relay is on
    inflight,     \* the exchanges on the wire: <<process, command>>
    fault,        \* the device or the transport has misbehaved so far
    lastSet,      \* <<channel, value>> of the set that returned last, while
                  \* no other set has acted since; <<>> otherwise
    sent,         \* what each _send_command call of the _switch_relay call
                  \* in progress returned, and the kind of error it logged
    tries         \* _read_device's i: the tries of the read in progress that
                  \* found nothing to read

vars == <<variant, num_relays, relays, ttyfd, mutex, oids, pc, site, ch, val,
          size, ret, out, all_state, dev, mib, inflight, fault, lastSet, sent,
          tries>>

\* process 0 runs _init; the threads run the handlers once it has returned
Threads == 1..NumThreads
Procs == 0..NumThreads

\* ------------------------------------------------ udinfs: the device table

UDIN8R ==
    <<"U", "D", "I", "N", "-", "8", "R", " ", "8", " ", "x", " ",
      "R", "e", "l", "a", "y", " ", "V", "1", ".", "0">>

\* _device_info, without its NULL end mark
DeviceInfo == << [id |-> UDIN8R, num_relays |-> 8] >>

\* the loop of _init over _device_info: the count of the first entry whose
\* id is buf, 0 when the loop runs to the end mark
RECURSIVE IdentifyFrom(_, _)
IdentifyFrom(buf, i) ==
    IF i > Len(DeviceInfo) THEN 0
    ELSE IF buf = DeviceInfo[i].id THEN DeviceInfo[i].num_relays
    ELSE IdentifyFrom(buf, i + 1)

\* a loop that takes any identity string for an entry of the table
IdentifiedFromAny(buf, i) == TRUE

\* whether that loop stops at an entry
RECURSIVE IdentifiedFrom(_, _)
IdentifiedFrom(buf, i) ==
    IF i > Len(DeviceInfo) THEN FALSE
    ELSE IF buf = DeviceInfo[i].id THEN TRUE
    ELSE IdentifiedFrom(buf, i + 1)

\* ---------------------------------------------------- udinfs: pure helpers

\* a bounds test that lets the index n through
SerialRelayFromPathInclusive(path, n) ==
    IF /\ CharAt(path, 0) = "/"
       /\ CharAt(path, 1) = "r"
       /\ Ord(CharAt(path, 2)) >= Ord("1")
       /\ Ord(CharAt(path, 2)) <= Ord("1") + n
       /\ CharAt(path, 3) = NUL
    THEN Ord(CharAt(path, 2)) - Ord("1")
    ELSE -1

\* _relay_from_path
SerialRelayFromPath(path, n) ==
    IF /\ CharAt(path, 0) = "/"
       /\ CharAt(path, 1) = "r"
       /\ Ord(CharAt(path, 2)) >= Ord("1")
       /\ Ord(CharAt(path, 2)) < Ord("1") + n
       /\ CharAt(path, 3) = NUL
    THEN Ord(CharAt(path, 2)) - Ord("1")
    ELSE -1

\* a command that names the relay by its index, not by its number
SwitchCmdByIndex(relay_num, s) ==
    << (IF s = relay_on THEN "n" ELSE "f"), Digits[relay_num + 1] >>

\* the command _switch_relay builds in buf
SwitchCmd(relay_num, s) ==
    << (IF s = relay_on THEN "n" ELSE "f"), Digits[relay_num + 2] >>

\* read() of n bytes into a buffer: the bytes after them stay as they were
Overlay(data, buf) ==
    IF Len(data) >= Len(buf) THEN data
    ELSE data \o SubSeq(buf, Len(data) + 1, Len(buf))

\* _read_device, given what the last read() of its loop returned
ReadDevice(r, buf) ==
    IF r.n = -1 THEN [ret |-> -1, buf |-> buf]
    ELSE IF r.n < 2 \/ r.data[r.n] # LF \/ r.data[r.n - 1] # CR
    THEN [ret |-> -1, buf |-> Overlay(r.data, buf)]
    ELSE [ret |-> 0,
          buf |-> Overlay(SubSeq(r.data, 1, r.n - 2) \o <<NUL, LF>>, buf)]

\* _write_device, given what write() returned
WriteDevice(n, len) == IF n = -1 \/ n < len THEN -1 ELSE 0

\* a seeding loop that takes every relay for off
SeedRelaysOff(rel, n, all) ==
    [i \in DOMAIN rel |-> IF i < n THEN [rel[i] EXCEPT !.state = relay_off] ELSE rel[i]]

\* the seeding loop of _init
SeedRelays(rel, n, all) ==
    [i \in DOMAIN rel |->
        IF i < n
        THEN [rel[i] EXCEPT !.state = IF BitSet(all, i) THEN relay_on ELSE relay_off]
        ELSE rel[i]]

\* a checking loop that misses a relay cached on and reported off
RECURSIVE CheckRelaysOneSided(_, _, _, _)
CheckRelaysOneSided(i, n, all, rel) ==
    IF i < n
    THEN IF rel[i].state = 0 /\ BitSet(all, i)
         THEN CheckRelaysOneSided(i + 1, 0, all, rel)
         ELSE CheckRelaysOneSided(i + 1, n, all, rel)
    ELSE n

\* a checking loop that hides one channel for each mismatch
RECURSIVE CheckRelaysDropOne(_, _, _, _)
CheckRelaysDropOne(i, n, all, rel) ==
    IF i < n
    THEN IF (rel[i].state # 0 /\ ~BitSet(all, i)) \/ (rel[i].state = 0 /\ BitSet(all, i))
         THEN CheckRelaysDropOne(i + 1, n - 1, all, rel)
         ELSE CheckRelaysDropOne(i + 1, n, all, rel)
    ELSE n

\* the checking loop of _switch_relay from index i on: the value it leaves
\* in _num_relays
RECURSIVE CheckRelays(_, _, _, _)
CheckRelays(i, n, all, rel) ==
    IF i < n
    THEN IF (rel[i].state # 0 /\ ~BitSet(all, i)) \/ (rel[i].state = 0 /\ BitSet(all, i))
         THEN CheckRelays(i + 1, 0, all, rel)
         ELSE CheckRelays(i + 1, n, all, rel)
    ELSE n

\* ------------------------------------------------- udinfs: the UDIN device

Line(text) == [n |-> Len(text) + 2, data |-> text \o <<CR, LF>>]

NoRead == [n |-> -1, data |-> <<>>]

Short(text) == [n |-> Len(text), data |-> text]

\* what write() of len bytes may return: an error, all but the CR, all
WriteResults(len) == {-1, len - 1, len}

\* what a device that works echoes
GoodEcho(cmd) == Line(cmd)

\* what the read() of the echo may return
EchoResults(cmd) == {GoodEcho(cmd), NoRead, Short(cmd), Line(<<"x">>)}

\* what a device that works answers to s0
GoodState(d) == Line(Decimal(d))

\* the aggregate states a device may report
Masks == (0..(Pow2(MaxChan) - 1)) \cup {256}

\* what the read() of the answer to s0 may return
StateResults == {Line(Decimal(m)) : m \in Masks}
                    \cup {NoRead, Short(<<"1">>), Line(<<"x">>)}

\* what the read() of the answer to ? may return: Line(<<"x">>) is a device
\* that works and is not in the table
IdResults == {Line(UDIN8R), Line(<<"x">>), NoRead, Short(<<"U">>)}

SetBit(m, i, on) ==
    IF BitSet(m, i) = on THEN m
    ELSE IF on THEN m + Pow2(i) ELSE m - Pow2(i)

\* the relays of the device after it has received cmd
DeviceExec(d, cmd) ==
    IF cmd[1] \in {"n", "f"} /\ IsDigit(cmd[2]) /\ DigitVal(cmd[2]) \in 1..8
    THEN SetBit(d, DigitVal(cmd[2]) - 1, cmd[1] = "n")
    ELSE d

\* --------------------------------------------------- udinfs: _send_command

HasResponse(s) == s \in {"id", "is0", "vs0"}

\* the command of the _send_command call at a site
Cmd(p) ==
    CASE site[p] = "id" -> <<"?">>
      [] site[p] = "sw" -> SwitchCmd(ch[p], val[p])
      [] OTHER -> <<"s", "0">>

\* the caller's buf as _send_command finds it: _init's holds the identity
\* after ?, _switch_relay's holds the switch command
RespBuf(p) ==
    CASE site[p] = "is0" -> UDIN8R \o <<NUL>>
      [] site[p] = "vs0" -> SwitchCmd(ch[p], val[p]) \o <<NUL>>
      [] OTHER -> <<NUL>>

\* a lock that lets a caller in while another holds it
MutexFreeAlways(m) == TRUE

\* the pthread_mutex_lock of a handler returns only when the mutex is free
MutexFree(m) == m = 0

remoteVars == <<oids, mib>>
handlerVars == <<ch, val, size, ret, out>>

\* _send_command goes on to its next read
SendGoesOn(p, stage) ==
    /\ pc' = [pc EXCEPT ![p] = stage]
    /\ UNCHANGED <<site, num_relays, relays, ttyfd, mutex, all_state, lastSet, sent>>
    /\ UNCHANGED handlerVars

\* _send_command returns r to its caller, whose buf holds b, and the caller
\* runs on to its next device call or to its end
SendReturns(p, r, b) ==
    /\ CASE site[p] = "id" ->
            \* _init, lines 205-222
            /\ IF r # 0 \/ ~IdentifiedFrom(CStr(b), 1)
               THEN /\ ttyfd' = -1
                    /\ pc' = [pc EXCEPT ![p] = "ready"]
                    /\ site' = [site EXCEPT ![p] = "none"]
                    /\ UNCHANGED num_relays
               ELSE /\ num_relays' = IdentifyFrom(CStr(b), 1)
                    /\ pc' = [pc EXCEPT ![p] = "write"]
                    /\ site' = [site EXCEPT ![p] = "is0"]
                    /\ UNCHANGED ttyfd
            /\ UNCHANGED <<relays, mutex, all_state>>
         [] site[p] = "is0" ->
            \* _init, lines 225-230
            /\ all_state' = [all_state EXCEPT ![p] = Atoi(CStr(b))]
            /\ relays' = SeedRelays(relays, num_relays, Atoi(CStr(b)))
            /\ pc' = [pc EXCEPT ![p] = "ready"]
            /\ site' = [site EXCEPT ![p] = "none"]
            /\ UNCHANGED <<num_relays, ttyfd, mutex>>
         [] site[p] = "sw" ->
            \* _switch_relay, lines 243-244
            /\ relays' = [relays EXCEPT ![ch[p]].state = val[p]]
            /\ pc' = [pc EXCEPT ![p] = "write"]
            /\ site' = [site EXCEPT ![p] = "vs0"]
            /\ UNCHANGED <<num_relays, ttyfd, mutex, all_state>>
         [] OTHER ->
            \* _switch_relay, lines 248-249
            /\ all_state' = [all_state EXCEPT ![p] = Atoi(CStr(b))]
            /\ pc' = [pc EXCEPT ![p] = "verify"]
            /\ site' = [site EXCEPT ![p] = "none"]
            /\ UNCHANGED <<num_relays, relays, ttyfd, mutex>>
    /\ UNCHANGED lastSet
    /\ UNCHANGED handlerVars

\* the return of a _send_command call of _switch_relay is noted with the
\* kind of the error it logged: "io" for a failed or partial write and a
\* failed read (lines 104, 128, 141), "protocol" for a short read and a wrong
\* echo (lines 116, 164)
Logged(p, r, e) ==
    sent' = IF p \in Threads
            THEN [sent EXCEPT ![p] = Append(@, [ret |-> r, err |-> e])]
            ELSE sent

\* the kind of error _read_device logs for what read() returned
ReadError(r, rd) ==
    IF r.n = -1 THEN "io" ELSE IF rd.ret # 0 THEN "protocol" ELSE "none"

\* _write_device: write() of the command and its CR returns n; a device that
\* obeys carries out the command it has received in full
DevWriteWith(p, n, obeys) ==
    /\ variant = "serial"
    /\ pc[p] = "write"
    /\ IF n = -1
       THEN /\ UNCHANGED <<inflight, dev>>
            /\ fault' = TRUE
            /\ SendReturns(p, WriteDevice(n, Len(Cmd(p)) + 1), RespBuf(p))
            /\ Logged(p, WriteDevice(n, Len(Cmd(p)) + 1), "io")
       ELSE IF WriteDevice(n, Len(Cmd(p)) + 1) # 0
       THEN /\ inflight' = inflight \cup {<<p, Cmd(p)>>}
            /\ fault' = TRUE
            /\ UNCHANGED dev
            /\ SendGoesOn(p, "pwrite")
       ELSE /\ inflight' = inflight \cup {<<p, Cmd(p)>>}
            /\ dev' = IF obeys THEN DeviceExec(dev, Cmd(p)) ELSE dev
            /\ fault' = (fault \/ dev' # DeviceExec(dev, Cmd(p)))
            /\ SendGoesOn(p, "echo")
    /\ UNCHANGED <<variant, remoteVars, tries>>

DevWrite(p) ==
    \E n \in WriteResults(Len(Cmd(p)) + 1), obeys \in BOOLEAN :
        /\ n = Len(Cmd(p)) + 1 \/ obeys
        /\ DevWriteWith(p, n, obeys)

\* _send_command gives up after a partial write
DevWriteShort(p) ==
    /\ variant = "serial"
    /\ pc[p] = "pwrite"
    /\ inflight' = inflight \ {<<p, Cmd(p)>>}
    /\ SendReturns(p, -1, RespBuf(p))
    /\ Logged(p, -1, "io")
    /\ UNCHANGED <<variant, remoteVars, dev, fault, tries>>

\* a loop whose counter starts again before it reaches the bound
NextTryWrapping(i) == (i + 1) % MaxTries

\* _read_device, lines 96-101: the number of the try that follows try i when
\* read() found nothing to read (EAGAIN), -1 when the loop ends instead
NextTry(i) == IF i + 1 < MaxTries THEN i + 1 ELSE -1

\* _read_device, lines 97-100: read() finds nothing to read, and the loop
\* sleeps and tries again; on the last try the read is left with -1, which
\* is the NoRead of the two read steps
DevReadAgain(p) ==
    /\ variant = "serial"
    /\ pc[p] \in {"echo", "resp"}
    /\ NextTry(tries[p]) >= 0
    /\ tries' = [tries EXCEPT ![p] = NextTry(@)]
    /\ UNCHANGED <<variant, num_relays, relays, ttyfd, mutex, pc, site, all_state,
                   dev, inflight, fault, lastSet, sent, remoteVars>>
    /\ UNCHANGED handlerVars

\* a comparison that takes any line for the echo
EchoMatchesAny(buf, command) == TRUE

\* _send_command, line 163: strcmp(buf, command) finds them equal
EchoMatches(buf, command) == CStr(buf) = command

\* _send_command reads the echo and compares it with the command
DevReadEchoWith(p, r) ==
    /\ variant = "serial"
    /\ pc[p] = "echo"
    /\ LET rd == ReadDevice(r, Cmd(p) \o <<CR, NUL>>)
       IN  /\ fault' = (fault \/ r # GoodEcho(Cmd(p)))
           /\ IF rd.ret # 0 \/ ~EchoMatches(rd.buf, Cmd(p))
              THEN /\ inflight' = inflight \ {<<p, Cmd(p)>>}
                   /\ SendReturns(p, -1, RespBuf(p))
                   /\ Logged(p, -1, IF rd.ret # 0 THEN ReadError(r, rd)
                                               ELSE "protocol")
              ELSE IF HasResponse(site[p])
              THEN /\ UNCHANGED inflight
                   /\ SendGoesOn(p, "resp")
              ELSE /\ inflight' = inflight \ {<<p, Cmd(p)>>}
                   /\ SendReturns(p, 0, RespBuf(p))
                   /\ Logged(p, 0, "none")
    /\ tries' = [tries EXCEPT ![p] = 0]
    /\ UNCHANGED <<variant, remoteVars, dev>>

DevReadEcho(p) == \E r \in EchoResults(Cmd(p)) : DevReadEchoWith(p, r)

\* _send_command reads the response line into the caller's buf
DevReadRespWith(p, r) ==
    /\ variant = "serial"
    /\ pc[p] = "resp"
    /\ LET rd == ReadDevice(r, RespBuf(p))
       IN  /\ fault' = (fault \/ (site[p] = "id" /\ r \in {NoRead, Short(<<"U">>)})
                              \/ (site[p] # "id" /\ r # GoodState(dev)))
           /\ inflight' = inflight \ {<<p, Cmd(p)>>}
           /\ SendReturns(p, rd.ret, rd.buf)
           /\ Logged(p, rd.ret, ReadError(r, rd))
    /\ tries' = [tries EXCEPT ![p] = 0]
    /\ UNCHANGED <<variant, remoteVars, dev>>

DevReadResp(p) ==
    \E r \in (IF site[p] = "id" THEN IdResults ELSE StateResults) :
        DevReadRespWith(p, r)

\* ----------------------------------------------------------- the requests

\* the channel indices callers ask for: the valid ones they use, and the
\* indices next to and at the ends of both programs' ranges
Indices == ((-2)..(MaxChan - 1)) \cup {8, 16}

\* the path of channel index i: files are named r1, r2, ...
PathOf(i) == <<"/", "r">> \o Decimal(i + 1)

Paths == {PathOf(i) : i \in Indices}
             \cup {<<"/">>, <<"/", "x", "1">>, <<"/", "r", "1", "x">>}

Sizes == 0..MaxSize
Offsets == {0, 1}
Bytes == {"0", "1", "x"}

\* the arguments of read requests: every path with a full read at offset 0,
\* and the first channel's path with every size and offset
ReadArgs ==
    (Paths \X {MaxSize} \X {0}) \cup ({PathOf(0)} \X Sizes \X Offsets)

\* the arguments of write requests, likewise, with every byte
WriteArgs ==
    (Paths \X Bytes \X {MaxSize} \X {0})
        \cup ({PathOf(0)} \X {"1"} \X Sizes \X Offsets)

\* a handler returns r, having put o in the caller's buffer; c is the channel
\* a set was made on, -1 after any other request
HandlerReturns(t, c, r, o) ==
    /\ pc' = [pc EXCEPT ![t] = "done"]
    /\ ch' = [ch EXCEPT ![t] = c]
    /\ ret' = [ret EXCEPT ![t] = r]
    /\ out' = [out EXCEPT ![t] = o]
    /\ size' = [size EXCEPT ![t] = 0]

\* the worker thread takes the next request
Finish(t) ==
    /\ pc[t] = "done"
    /\ pc' = [pc EXCEPT ![t] = "idle"]
    /\ ch' = [ch EXCEPT ![t] = -1]
    /\ val' = [val EXCEPT ![t] = relay_off]
    /\ ret' = [ret EXCEPT ![t] = 0]
    /\ out' = [out EXCEPT ![t] = ""]
    /\ site' = [site EXCEPT ![t] = "none"]
    /\ UNCHANGED <<variant, num_relays, relays, ttyfd, mutex, size, all_state,
                   dev, inflight, fault, lastSet, sent, tries,
                   remoteVars>>

\* ------------------------------------------------------- udinfs: handlers

\* _init up to its first _send_command: the memset and _open_device
SerialInitWith(opened) ==
    /\ variant = "serial"
    /\ pc[0] = "open"
    /\ relays' = [i \in DOMAIN relays |-> [mtime |-> 0, state |-> relay_off]]
    /\ num_relays' = 0
    /\ IF opened
       THEN /\ ttyfd' = 3
            /\ pc' = [pc EXCEPT ![0] = "write"]
            /\ site' = [site EXCEPT ![0] = "id"]
            /\ UNCHANGED fault
       ELSE /\ ttyfd' = -1
            /\ pc' = [pc EXCEPT ![0] = "ready"]
            /\ fault' = TRUE
            /\ UNCHANGED site
    /\ UNCHANGED <<variant, mutex, all_state, dev, inflight, lastSet, sent, tries,
                   remoteVars>>
    /\ UNCHANGED handlerVars

SerialInit == \E opened \in BOOLEAN : SerialInitWith(opened)

\* _read up to its read of the cache
SerialReadOf(t, path, sz, offset) ==
    /\ variant = "serial"
    /\ pc[0] = "ready"
    /\ pc[t] = "idle"
    /\ LET channel == SerialRelayFromPath(path, num_relays)
       IN  IF channel < 0
           THEN HandlerReturns(t, -1, -ENOENT, "")
           ELSE IF sz = 0 \/ offset # 0
           THEN HandlerReturns(t, -1, 0, "")
           ELSE /\ pc' = [pc EXCEPT ![t] = "rd"]
                /\ ch' = [ch EXCEPT ![t] = channel]
                /\ UNCHANGED <<ret, out, size>>
    /\ UNCHANGED <<variant, num_relays, relays, ttyfd, mutex, site, val, all_state,
                   dev, inflight, fault, lastSet, sent, tries,
                   remoteVars>>

SerialRead(t) == \E a \in ReadArgs : SerialReadOf(t, a[1], a[2], a[3])

\* _read, lines 327-328
SerialReadCache(t) ==
    /\ variant = "serial"
    /\ pc[t] = "rd"
    /\ HandlerReturns(t, -1, 1, IF relays[ch[t]].state # 0 THEN "1" ELSE "0")
    /\ UNCHANGED <<variant, num_relays, relays, ttyfd, mutex, site, val, all_state,
                   dev, inflight, fault, lastSet, sent, tries,
                   remoteVars>>

\* _write up to its call of _switch_relay
SerialWriteOf(t, path, byte, sz, offset) ==
    /\ variant = "serial"
    /\ pc[0] = "ready"
    /\ pc[t] = "idle"
    /\ LET channel == SerialRelayFromPath(path, num_relays)
       IN  IF channel < 0
           THEN HandlerReturns(t, -1, -ENOENT, "") /\ UNCHANGED val
           ELSE IF sz = 0 \/ offset # 0
           THEN HandlerReturns(t, -1, 0, "") /\ UNCHANGED val
           ELSE /\ pc' = [pc EXCEPT ![t] = "check"]
                /\ ch' = [ch EXCEPT ![t] = channel]
                /\ val' = [val EXCEPT ![t] = IF byte = "1" THEN relay_on ELSE relay_off]
                /\ size' = [size EXCEPT ![t] = sz]
                /\ UNCHANGED <<ret, out>>
    /\ UNCHANGED <<variant, num_relays, relays, ttyfd, mutex, site, all_state,
                   dev, inflight, fault, lastSet, sent, tries,
                   remoteVars>>

SerialWrite(t) == \E a \in WriteArgs : SerialWriteOf(t, a[1], a[2], a[3], a[4])

\* a test that takes every request for a change
NeedsSwitchAlways(rel, relay_num, s) == TRUE

\* _switch_relay, line 237: whether the cache differs from the state asked for
NeedsSwitch(rel, relay_num, s) == rel[relay_num].state # s

\* _switch_relay, line 237: the test of the cache, made without the mutex
SwitchCheck(t) ==
    /\ variant = "serial"
    /\ pc[t] = "check"
    /\ IF NeedsSwitch(relays, ch[t], val[t])
       THEN /\ pc' = [pc EXCEPT ![t] = "lock"]
            /\ UNCHANGED <<ch, ret, out, size, lastSet, sent>>
       ELSE /\ HandlerReturns(t, ch[t], size[t], "")
            /\ lastSet' = IF mutex = 0 THEN <<ch[t], val[t]>> ELSE lastSet
            /\ UNCHANGED <<sent, tries>>
    /\ UNCHANGED <<variant, num_relays, relays, ttyfd, mutex, site, val, all_state,
                   dev, inflight, fault, tries, remoteVars>>

\* _switch_relay, lines 238-242: pthread_mutex_lock and the command
SwitchLock(t) ==
    /\ variant = "serial"
    /\ pc[t] = "lock"
    /\ MutexFree(mutex)
    /\ mutex' = t
    /\ pc' = [pc EXCEPT ![t] = "write"]
    /\ site' = [site EXCEPT ![t] = "sw"]
    /\ lastSet' = <<>>
    /\ UNCHANGED <<sent, tries>>
    /\ UNCHANGED <<variant, num_relays, relays, ttyfd, all_state, dev, inflight,
                   fault, remoteVars>>
    /\ UNCHANGED handlerVars

\* _switch_relay, lines 250-257, and the return of _write
SwitchVerify(t) ==
    /\ variant = "serial"
    /\ pc[t] = "verify"
    /\ num_relays' = CheckRelays(0, num_relays, all_state[t], relays)
    /\ mutex' = 0
    /\ all_state' = [all_state EXCEPT ![t] = 0]
    /\ HandlerReturns(t, ch[t], size[t], "")
    /\ lastSet' = <<ch[t], val[t]>>
    /\ sent' = [sent EXCEPT ![t] = <<>>]
    /\ UNCHANGED tries
    /\ UNCHANGED <<variant, relays, ttyfd, site, val, dev, inflight, fault,
                   remoteVars>>

\* ------------------------------------------------- dkrfs: the address table

\* a table that puts every channel in the first bank
OidTextOneBank(i) ==
    <<".", "1", ".", "3", ".", "6", ".", "1", ".", "4", ".", "1", ".",
      "1", "9", "8", "6", "5", ".", "1", ".", "2", ".">>
        \o Decimal(1) \o <<".">> \o Decimal((i % 8) + 1) \o <<".", "0">>

\* the text sprintf writes for channel i at line 323
OidText(i) ==
    <<".", "1", ".", "3", ".", "6", ".", "1", ".", "4", ".", "1", ".",
      "1", "9", "8", "6", "5", ".", "1", ".", "2", ".">>
        \o Decimal(i \div 8 + 1) \o <<".">> \o Decimal((i % 8) + 1) \o <<".", "0">>

RECURSIVE DropDigits(_)
DropDigits(s) ==
    IF s = <<>> \/ ~IsDigit(Head(s)) THEN s ELSE DropDigits(Tail(s))

\* read_objid of a numeric, dotted identifier: its sub-identifiers
RECURSIVE ReadObjid(_)
ReadObjid(text) ==
    IF text = <<>> THEN <<>>
    ELSE IF Head(text) = "." THEN ReadObjid(Tail(text))
    ELSE <<DigitsValue(text, 0)>> \o ReadObjid(DropDigits(text))

\* the loop of main, lines 321-326
OidTable(n) == [i \in 0..(n - 1) |-> ReadObjid(OidText(i))]

\* opt_proc, KEY_NUM_RELAYS, given the number the option carries
OptNumRelays(arg) == IF arg > 16 THEN 16 ELSE arg

\* strtol(s, &e, 10) of a string that starts with a digit
Strtol(s) == [n |-> DigitsValue(s, 0), e |-> DropDigits(s)]

\* _relay_from_path
RemoteRelayFromPath(path, n) ==
    IF /\ CharAt(path, 0) = "/"
       /\ CharAt(path, 1) = "r"
       /\ Ord(CharAt(path, 2)) >= Ord("1")
       /\ Ord(CharAt(path, 2)) <= Ord("9")
    THEN LET r == Strtol(SubSeq(path, 3, Len(path)))
         IN  IF r.e = <<>> /\ r.n >= 1 /\ r.n <= n THEN r.n - 1 ELSE -1
    ELSE -1

\* ------------------------------------------------ dkrfs: the SNMP exchange

\* what snmp_synch_response may come back with: its status, the response's
\* errstat and integer, and whether the device carried a set out
Responses ==
    [status : {"STAT_SUCCESS", "STAT_ERROR", "STAT_TIMEOUT"},
     errstat : {0, 2},
     integer : {0, 1, 5},
     applied : BOOLEAN]

\* what a device that works answers to a request
GoodResponse(kind, oid, m) ==
    [status |-> "STAT_SUCCESS", errstat |-> 0,
     integer |-> IF kind = "get" /\ oid \in m THEN 1 ELSE 0,
     applied |-> kind = "set"]

\* the responses told apart by what the program can see of them
SeenResponses(kind) ==
    {r \in Responses :
        /\ r.status # "STAT_SUCCESS" => r.errstat = 0 /\ r.integer = 0
        /\ r.errstat # 0 => r.integer = 0
        /\ kind = "get" => ~r.applied
        /\ kind = "set" => r.integer = 0}

\* a test that looks at the status only
SnmpSynchRetByStatus(r) == IF r.status = "STAT_SUCCESS" THEN 1 ELSE 0

\* _snmp_synch, lines 94-103: its return value
SnmpSynchRet(r) ==
    IF r.status = "STAT_SUCCESS" /\ r.errstat = 0 THEN 1 ELSE 0

\* a decoding with the two states exchanged
SnmpSynchStateInverted(r) == IF r.integer = 0 THEN relay_on ELSE relay_off

\* _snmp_synch, line 97: the state it stores through s
SnmpSynchState(r) == IF r.integer = 0 THEN relay_off ELSE relay_on

\* a write that hands on the failure of _set_relay
RemoteWriteRetChecked(rc, sz) == IF rc # 0 THEN sz ELSE -EIO

\* _write, lines 205-207: what it returns after _set_relay has returned rc
RemoteWriteRet(rc, sz) == sz

\* _read up to the pthread_mutex_lock of _snmp_synch
RemoteReadOf(t, path, sz, offset) ==
    /\ variant = "remote"
    /\ pc[t] = "idle"
    /\ LET channel == RemoteRelayFromPath(path, num_relays)
       IN  IF channel < 0
           THEN HandlerReturns(t, -1, -ENOENT, "") /\ UNCHANGED site
           ELSE IF sz = 0 \/ offset # 0
           THEN HandlerReturns(t, -1, 0, "") /\ UNCHANGED site
           ELSE /\ pc' = [pc EXCEPT ![t] = "rlock"]
                /\ ch' = [ch EXCEPT ![t] = channel]
                /\ site' = [site EXCEPT ![t] = "get"]
                /\ UNCHANGED <<ret, out, size>>
    /\ UNCHANGED <<variant, num_relays, relays, ttyfd, mutex, val, all_state,
                   dev, inflight, fault, lastSet, sent, tries,
                   remoteVars>>

RemoteRead(t) == \E a \in ReadArgs : RemoteReadOf(t, a[1], a[2], a[3])

\* _write up to the pthread_mutex_lock of _snmp_synch
RemoteWriteOf(t, path, byte, sz, offset) ==
    /\ variant = "remote"
    /\ pc[t] = "idle"
    /\ LET channel == RemoteRelayFromPath(path, num_relays)
       IN  IF channel < 0
           THEN HandlerReturns(t, -1, -ENOENT, "") /\ UNCHANGED <<site, val>>
           ELSE IF sz = 0 \/ offset # 0
           THEN HandlerReturns(t, -1, 0, "") /\ UNCHANGED <<site, val>>
           ELSE /\ pc' = [pc EXCEPT ![t] = "rlock"]
                /\ ch' = [ch EXCEPT ![t] = channel]
                /\ val' = [val EXCEPT ![t] = IF byte = "1" THEN relay_on ELSE relay_off]
                /\ size' = [size EXCEPT ![t] = sz]
                /\ site' = [site EXCEPT ![t] = "set"]
                /\ UNCHANGED <<ret, out>>
    /\ UNCHANGED <<variant, num_relays, relays, ttyfd, mutex, all_state,
                   dev, inflight, fault, lastSet, sent, tries,
                   remoteVars>>

RemoteWrite(t) == \E a \in WriteArgs : RemoteWriteOf(t, a[1], a[2], a[3], a[4])

\* the request _set_relay or _get_relay builds
Pdu(t) == <<site[t], oids[ch[t]], IF site[t] = "set" THEN val[t] ELSE 0>>

\* _snmp_synch, lines 90-91: pthread_mutex_lock, and the request goes out
SnmpLock(t) ==
    /\ variant = "remote"
    /\ pc[t] = "rlock"
    /\ MutexFree(mutex)
    /\ mutex' = t
    /\ pc' = [pc EXCEPT ![t] = "synch"]
    /\ inflight' = inflight \cup {<<t, Pdu(t)>>}
    /\ lastSet' = IF site[t] = "set" THEN <<>> ELSE lastSet
    /\ UNCHANGED <<sent, tries>>
    /\ UNCHANGED <<variant, num_relays, relays, ttyfd, site, all_state, dev,
                   fault, remoteVars>>
    /\ UNCHANGED handlerVars

\* _snmp_synch, lines 91-103: snmp_synch_response returns, the mutex is
\* released, and _read or _write returns
SnmpSynchWith(t, r) ==
    /\ variant = "remote"
    /\ pc[t] = "synch"
    /\ mib' = IF r.applied
              THEN IF val[t] = relay_on
                   THEN mib \cup {oids[ch[t]]}
                   ELSE mib \ {oids[ch[t]]}
              ELSE mib
    /\ fault' = (fault \/ r # GoodResponse(site[t], oids[ch[t]], mib))
    /\ IF site[t] = "set"
       THEN /\ HandlerReturns(t, ch[t], RemoteWriteRet(SnmpSynchRet(r), size[t]), "")
            /\ lastSet' = <<ch[t], val[t]>>
       ELSE /\ IF SnmpSynchRet(r) # 0
               THEN HandlerReturns(t, -1, 1,
                        IF SnmpSynchState(r) = relay_on THEN "1" ELSE "0")
               ELSE HandlerReturns(t, -1, -EIO, "")
            /\ UNCHANGED lastSet
    /\ mutex' = 0
    /\ inflight' = inflight \ {<<t, Pdu(t)>>}
    /\ UNCHANGED <<sent, tries>>
    /\ UNCHANGED <<variant, num_relays, relays, ttyfd, site, val, all_state, dev,
                   oids>>

SnmpSynch(t) == \E r \in SeenResponses(site[t]) : SnmpSynchWith(t, r)

\* ------------------------------------------------------ the specification

\* the relays that are on when the program starts
DevInit == 0..(Pow2(MaxChan) - 1)

\* the numbers the -r option is given, 16 being the default
RelayOptions == {0, 1, 16, 17}

NoLocals ==
    /\ site = [p \in Procs |-> "none"]
    /\ ch = [p \in Procs |-> -1]
    /\ val = [p \in Procs |-> relay_off]
    /\ size = [p \in Procs |-> 0]
    /\ ret = [p \in Procs |-> 0]
    /\ out = [p \in Procs |-> ""]
    /\ all_state = [p \in Procs |-> 0]

\* udinfs as fuse_main calls _init
SerialStart ==
    /\ variant = "serial"
    /\ num_relays = 0
    /\ relays = [i \in 0..7 |-> [mtime |-> 0, state |-> relay_off]]
    /\ ttyfd = -1
    /\ oids = <<>>
    /\ pc = [p \in Procs |-> IF p = 0 THEN "open" ELSE "idle"]
    /\ dev \in DevInit
    /\ mib = {}

\* dkrfs as main calls fuse_main: the session is open, the table computed
RemoteStart ==
    /\ variant = "remote"
    /\ \E arg \in RelayOptions :
        /\ num_relays = OptNumRelays(arg)
        /\ oids = OidTable(OptNumRelays(arg))
    /\ relays = <<>>
    /\ ttyfd = -1
    /\ pc = [p \in Procs |-> IF p = 0 THEN "ready" ELSE "idle"]
    /\ dev = 0
    /\ mib \in {{}, {ReadObjid(OidText(0))}}

Init ==
    /\ SerialStart \/ RemoteStart
    /\ NoLocals
    /\ mutex = 0
    /\ inflight = {}
    /\ fault = FALSE
    /\ lastSet = <<>>
    /\ sent = [t \in Threads |-> <<>>]
    /\ tries = [p \in Procs |-> 0]

\* every step but a worker's return to its loop
Serve ==
    \/ SerialInit
    \/ \E p \in Procs : DevWrite(p)
    \/ \E p \in Procs : DevWriteShort(p)
    \/ \E p \in Procs : DevReadEcho(p)
    \/ \E p \in Procs : DevReadResp(p)
    \/ \E t \in Threads : SerialRead(t)
    \/ \E t \in Threads : SerialReadCache(t)
    \/ \E t \in Threads : SerialWrite(t)
    \/ \E t \in Threads : SwitchCheck(t)
    \/ \E t \in Threads : SwitchLock(t)
    \/ \E t \in Threads : SwitchVerify(t)
    \/ \E t \in Threads : RemoteRead(t)
    \/ \E t \in Threads : RemoteWrite(t)
    \/ \E t \in Threads : SnmpLock(t)
    \/ \E t \in Threads : SnmpSynch(t)

Next == Serve \/ \E t \in Threads : Finish(t)

Spec == Init /\ [][Next]_vars

\* each thread serves one request
SpecOnce == Init /\ [][Serve]_vars

\* udinfs alone, the first relay off or on at the start
InitLive == Init /\ variant = "serial" /\ dev \in {0, 1}

\* the requests of the fair specification: gets and sets of the first channel
LiveRead(t) == SerialReadOf(t, PathOf(0), MaxSize, 0)

LiveWrite(t) == \E byte \in {"0", "1"} : SerialWriteOf(t, PathOf(0), byte, MaxSize, 0)

\* the steps process p takes by running on: every step of _init and of a
\* handler but the pthread_mutex_lock, each try of _read_device being a step
\* of its own
Step(p) ==
    \/ p = 0 /\ SerialInit
    \/ DevWrite(p)
    \/ DevWriteShort(p)
    \/ DevReadAgain(p)
    \/ DevReadEcho(p)
    \/ DevReadResp(p)
    \/ p \in Threads /\ SerialReadCache(p)
    \/ p \in Threads /\ SwitchCheck(p)
    \/ p \in Threads /\ SwitchVerify(p)

NextLive ==
    \/ \E p \in Procs : Step(p)
    \/ \E t \in Threads : SwitchLock(t)
    \/ \E t \in Threads : LiveRead(t)
    \/ \E t \in Threads : LiveWrite(t)
    \/ \E t \in Threads : Finish(t)

\* udinfs under fair scheduling: a process that can run does run, whatever
\* read() and write() return to it, and a thread that waits for the mutex
\* gets it if the mutex is free again and again; requests need not come
SpecLive ==
    /\ InitLive
    /\ [][NextLive]_vars
    /\ \A p \in Procs : WF_vars(Step(p))
    /\ \A t \in Threads : SF_vars(SwitchLock(t))

\* ------------------------------------------------------------- properties

\* a writer of udinfs between the write of its switch command and the end of
\* its verification read
InSection(t) ==
    \/ site[t] = "sw" /\ pc[t] \in {"pwrite", "echo"}
    \/ site[t] = "vs0" /\ pc[t] \in {"write", "pwrite", "echo", "resp"}

\* C1: udinfs: from the moment a writer has put its switch command on the
\* wire until its s0 verification read completes, only that writer has a
\* command on the wire; at most one exchange is in flight, and at most one
\* writer is in that section.
C1_SwitchAndVerifyExclusive ==
    variant = "serial" =>
        /\ Cardinality(inflight) <= 1
        /\ \A t \in Threads :
            InSection(t) =>
                /\ \A x \in inflight : x[1] = t
                /\ \A u \in Threads : InSection(u) => u = t

\* a writer awaits the answer to its verification query while another writer
\* waits for the mutex
C1_Witness ==
    /\ variant = "serial"
    /\ \E t, u \in Threads :
        /\ t # u
        /\ site[t] = "vs0" /\ pc[t] = "resp"
        /\ inflight = {<<t, <<"s", "0">>>>}
        /\ pc[u] = "lock"

\* C2: dkrfs: at most one round trip on the session is in flight; a round
\* trip is in flight only for the caller that holds the mutex, and a caller
\* that is not in a round trip (before it, or after it has succeeded or
\* failed) does not hold the mutex.
C2_OneRoundTrip ==
    variant = "remote" =>
        /\ Cardinality(inflight) <= 1
        /\ \A x \in inflight : mutex = x[1] /\ pc[x[1]] = "synch"
        /\ \A t \in Threads : pc[t] = "synch" => <<t, Pdu(t)>> \in inflight
        /\ \A t \in Threads : pc[t] # "synch" => mutex # t

\* a read has failed and released the mutex, and another caller's round trip
\* is in flight while a third request waits or the first caller is done
C2_Witness ==
    /\ variant = "remote"
    /\ \E t, u \in Threads :
        /\ t # u
        /\ pc[t] = "done" /\ ret[t] = -EIO
        /\ pc[u] = "synch" /\ mutex = u
        /\ inflight = {<<u, Pdu(u)>>}

\* whether the aggregate state all disagrees with the cache on a channel
Disagrees(all, rel, n) ==
    \E i \in 0..(n - 1) : BitSet(all, i) # (rel[i].state # relay_off)

\* C3: udinfs: when a set that has sent a switch command ends, count() is 0
\* if the aggregate state decoded from the s0 reply disagrees with the cache
\* on some channel in 0..N-1, and N is unchanged if it agrees on all of them;
\* the aggregate state decoded from a reply line is the number the line holds.
C3_ConsistencyCollapse ==
    [][\A t \in Threads :
        /\ (variant = "serial" /\ pc[t] = "verify" /\ pc'[t] = "done") =>
              IF Disagrees(all_state[t], relays, num_relays)
              THEN num_relays' = 0
              ELSE num_relays' = num_relays
        /\ \A m \in Masks :
              (site[t] = "vs0" /\ DevReadRespWith(t, Line(Decimal(m)))) =>
                  all_state'[t] = m /\ pc'[t] = "verify"
      ]_vars

\* the reply to the verification query of a set disagrees with the bit just
\* written, on a device that had been identified
C3_Witness ==
    /\ variant = "serial"
    /\ num_relays = 8
    /\ \E t \in Threads :
        /\ pc[t] = "verify"
        /\ BitSet(all_state[t], ch[t]) # (val[t] = relay_on)
        /\ relays[ch[t]].state = val[t]

\* the path of each channel index requested
IndexPaths == [i \in Indices |-> PathOf(i)]

\* the requests the handlers are given for channel index i
ReadArgsAt == [i \in Indices |-> {a \in ReadArgs : a[1] = PathOf(i)}]
WriteArgsAt == [i \in Indices |-> {a \in WriteArgs : a[1] = PathOf(i)}]

\* thread t takes a read or a write of channel index i
Requests(t, i) ==
    IF variant = "serial"
    THEN \/ \E a \in ReadArgsAt[i] : SerialReadOf(t, a[1], a[2], a[3])
         \/ \E a \in WriteArgsAt[i] : SerialWriteOf(t, a[1], a[2], a[3], a[4])
    ELSE \/ \E a \in ReadArgsAt[i] : RemoteReadOf(t, a[1], a[2], a[3])
         \/ \E a \in WriteArgsAt[i] : RemoteWriteOf(t, a[1], a[2], a[3], a[4])

\* the request of thread t is refused and touches nothing
Refused(t) ==
    /\ pc'[t] = "done"
    /\ ret'[t] = -ENOENT
    /\ UNCHANGED <<inflight, mutex, relays, num_relays, dev, mib>>

\* C4: both programs: a read or a write of a channel index outside 0..N-1
\* (i = N, i < 0, any index when N = 0) returns -ENOENT at once, and puts
\* nothing on the wire, takes no lock and changes neither the cache, nor N,
\* nor the device: a step that takes a request either is refused in this way
\* or is not a request of an index outside 0..N-1.
C4_InvalidIndex ==
    [][\A t \in Threads :
        (pc[t] = "idle" /\ pc'[t] # "idle") =>
            \/ Refused(t)
            \/ \A i \in Indices :
                  (i < 0 \/ i >= num_relays) => ~Requests(t, i)
      ]_vars

\* a request was refused on an identified device while another thread's
\* exchange with it is in flight
C4_Witness ==
    /\ num_relays > 0
    /\ \E t, u \in Threads :
        /\ pc[t] = "done" /\ ret[t] = -ENOENT
        /\ \E x \in inflight : x[1] = u

\* C5: udinfs: once N has collapsed to 0, in every state with N = 0 no write
\* puts a switch or query command on the wire and no write changes the cache,
\* whatever the interleaving of the writers, those admitted before the
\* collapse included.
C5_HiddenAfterCollapse ==
    [][(variant = "serial" /\ pc[0] = "ready" /\ num_relays = 0) =>
            (inflight' \subseteq inflight /\ relays' = relays)
      ]_vars

\* C6: udinfs: a set whose value equals the cached state of its channel, and
\* so a set(i, v) that follows a set(i, v) with nothing in between, sends
\* nothing on the wire, does not take the lock, and leaves the cache, N and
\* the device as they are.
C6_CacheHitNoOp ==
    [][\A t \in Threads :
        (/\ variant = "serial"
         /\ pc[t] = "check"
         /\ pc'[t] # "check"
         /\ \/ relays[ch[t]].state = val[t]
            \/ lastSet = <<ch[t], val[t]>>)
        => /\ pc'[t] = "done"
           /\ UNCHANGED <<inflight, mutex, relays, num_relays, dev>>
      ]_vars

\* two sets of the same value on the same channel have returned one after the
\* other, the relay being on in the cache and on the device
C6_Witness ==
    /\ variant = "serial"
    /\ num_relays = 8
    /\ mutex = 0
    /\ inflight = {}
    /\ \E t, u \in Threads :
        /\ t # u
        /\ pc[t] = "done" /\ pc[u] = "done"
        /\ ch[t] >= 0 /\ ch[u] = ch[t]
        /\ val[t] = relay_on /\ val[u] = relay_on
        /\ lastSet = <<ch[t], relay_on>>
        /\ relays[ch[t]].state = relay_on
        /\ BitSet(dev, ch[t])

\* the text a read returns for a state
StateText(v) == IF v = relay_on THEN "1" ELSE "0"

\* C7: both programs, with a device that has obeyed every command and
\* reported its true state: after set(i, v) has returned, a get(i) that
\* follows it is admitted and returns v with success.
C7_SetThenGet ==
    [][\A t \in Threads :
        (~fault' /\ lastSet # <<>>) =>
            /\ (pc[t] = "idle" /\ pc'[t] # "idle") =>
                  /\ SerialReadOf(t, IndexPaths[lastSet[1]], MaxSize, 0) =>
                        pc'[t] = "rd" /\ ch'[t] = lastSet[1]
                  /\ RemoteReadOf(t, IndexPaths[lastSet[1]], MaxSize, 0) =>
                        pc'[t] = "rlock" /\ ch'[t] = lastSet[1]
            /\ (/\ ch[t] = lastSet[1]
                /\ \/ SerialReadCache(t)
                   \/ site[t] = "get" /\ \E r \in Responses : SnmpSynchWith(t, r))
               => /\ pc'[t] = "done"
                  /\ ret'[t] = 1
                  /\ out'[t] = StateText(lastSet[2])
      ]_vars

\* a set that switched a channel on has returned with no fault so far, and a
\* get of that channel is about to return, on either program
C7_Witness ==
    /\ ~fault
    /\ lastSet # <<>>
    /\ lastSet[2] = relay_on
    /\ \E t, u \in Threads :
        /\ t # u
        /\ pc[u] = "done" /\ ch[u] = lastSet[1] /\ val[u] = relay_on
        /\ ch[t] = lastSet[1]
        /\ pc[t] = "rd" \/ (pc[t] = "synch" /\ site[t] = "get")

\* every thread has called set, on channels all different, and has returned
AllSetDistinct ==
    /\ \A t \in Threads : pc[t] = "done" /\ ch[t] >= 0
    /\ \A t, u \in Threads : t # u => ch[t] # ch[u]

\* C8: udinfs, each thread calling set once on a channel of its own against a
\* device without faults: when all the calls have returned, every channel is
\* in the state asked for in the cache and on the device, and N has not
\* collapsed.
C8_ConcurrentWriters ==
    (variant = "serial" /\ ~fault /\ AllSetDistinct) =>
        /\ num_relays = 8
        /\ mutex = 0
        /\ \A t \in Threads :
            /\ relays[ch[t]].state = val[t]
            /\ BitSet(dev, ch[t]) = (val[t] = relay_on)

\* all the threads have set their channels, one of them switching a relay on
\* that was off and another switching one off
C8_Witness ==
    /\ variant = "serial"
    /\ ~fault
    /\ AllSetDistinct
    /\ \E t, u \in Threads :
        /\ val[t] = relay_on /\ BitSet(dev, ch[t])
        /\ val[u] = relay_off /\ ~BitSet(dev, ch[u])

\* _init ends without a device: the open fails, the identify exchange fails,
\* or the identity is none of the table
InitFails ==
    \/ SerialInitWith(FALSE)
    \/ /\ site[0] = "id"
       /\ \/ DevWriteWith(0, -1, TRUE)
          \/ DevWriteShort(0)
          \/ \E r \in EchoResults(<<"?">>) \ {GoodEcho(<<"?">>)} :
                DevReadEchoWith(0, r)
          \/ \E r \in IdResults \ {Line(UDIN8R)} : DevReadRespWith(0, r)

\* C9: udinfs: if the device cannot be opened, the identify exchange fails,
\* or the identity string matches no entry of the device table, startup ends
\* with count() = 0 and the port closed; and with the port closed after
\* startup no command is ever sent, N stays 0 and the port stays closed.
C9_IdentificationFailure ==
    [][/\ (variant = "serial" /\ pc[0] # "ready" /\ InitFails) =>
              /\ pc'[0] = "ready"
              /\ num_relays' = 0
              /\ ttyfd' = -1
              /\ inflight' = {}
       /\ (variant = "serial" /\ pc[0] = "ready" /\ ttyfd = -1) =>
              /\ num_relays = 0
              /\ inflight = {}
              /\ UNCHANGED <<pc[0], num_relays, ttyfd, inflight, relays, dev>>
      ]_vars

\* startup has ended without a device, and every thread has had a request
\* refused since
C9_Witness ==
    /\ variant = "serial"
    /\ pc[0] = "ready"
    /\ ttyfd = -1
    /\ num_relays = 0
    /\ inflight = {}
    /\ \A t \in Threads : pc[t] = "done" /\ ret[t] = -ENOENT

\* C10: udinfs: when the identity matches, startup ends with N the count of
\* the table and, for every channel k in 0..N-1, the cached state equal to
\* bit k of the aggregate value the device reported for s0: the step that
\* ends startup is the read of a reply line of the device holding a number.
C10_SeedFromDevice ==
    [][(variant = "serial" /\ site[0] = "is0" /\ pc'[0] = "ready") =>
            /\ num_relays' = 8
            /\ \E m \in Masks :
                /\ DevReadRespWith(0, Line(Decimal(m)))
                /\ \A k \in 0..(num_relays' - 1) :
                      (relays'[k].state = relay_on) = BitSet(m, k)
      ]_vars

\* the echoes that are a protocol failure: a wrong echo, a short read
BadEchoes(cmd) == EchoResults(cmd) \ {GoodEcho(cmd), NoRead}

\* C11: udinfs: when the switch exchange of a set fails with a protocol
\* failure (wrong echo, short or malformed line), the cached state of the
\* channel is not changed, and the write returns an I/O error to its caller.
C11_ProtocolFailureSurfaced ==
    [][\A t \in Threads :
        /\ (/\ site[t] = "sw"
            /\ \E r \in BadEchoes(Cmd(t)) : DevReadEchoWith(t, r))
           => relays' = relays
        /\ (/\ variant = "serial"
            /\ pc[t] = "verify"
            /\ pc'[t] = "done"
            /\ sent[t][1].err = "protocol")
           => ret'[t] = -EIO
      ]_vars

\* C12: udinfs: if a transport failure (a device write or read error) keeps
\* both the switch command and the verification query of a set from being
\* exchanged, N is 0 when the set returns, whatever the cache holds and
\* whatever value was asked for.
C12_TransportFailureCollapses ==
    [][\A t \in Threads :
        (/\ variant = "serial"
         /\ pc[t] = "verify"
         /\ pc'[t] = "done"
         /\ sent[t][1].err = "io"
         /\ sent[t][2].err = "io")
        => num_relays' = 0
      ]_vars

\* C13: dkrfs: a read of a valid channel returns "1" when the round trip
\* succeeds with a nonzero integer and "0" when it succeeds with zero; when
\* the round trip fails at transport level or the device reports an error
\* status, it returns the same -EIO and no value.
C13_RemoteRead ==
    [][\A t \in Threads :
        (site[t] = "get" /\ pc[t] = "synch") =>
            \A r \in SeenResponses("get") :
                SnmpSynchWith(t, r) =>
                    /\ pc'[t] = "done"
                    /\ IF r.status = "STAT_SUCCESS" /\ r.errstat = 0
                       THEN /\ ret'[t] = 1
                            /\ out'[t] = IF r.integer # 0 THEN "1" ELSE "0"
                       ELSE /\ ret'[t] = -EIO
                            /\ out'[t] = ""
      ]_vars

\* one read has returned "1" and another has failed
C13_Witness ==
    /\ variant = "remote"
    /\ \E t, u \in Threads :
        /\ t # u
        /\ pc[t] = "done" /\ ret[t] = 1 /\ out[t] = "1"
        /\ pc[u] = "done" /\ ret[u] = -EIO /\ out[u] = ""
        /\ site[t] = "get" /\ site[u] = "get"

\* thread t takes a write of a valid channel, of a length that is not 0, at
\* offset 0
ValidWrite(t) ==
    \E i \in 0..(num_relays - 1) \cap Indices :
        \E a \in WriteArgsAt[i] :
            /\ a[3] > 0
            /\ a[4] = 0
            /\ RemoteWriteOf(t, a[1], a[2], a[3], a[4])

\* C14: dkrfs: a write of a valid channel, of a length that is not 0, at
\* offset 0, makes one set round trip and returns the full length, whether
\* the round trip succeeded, failed at transport level, or the device
\* returned an error status.
C14_WriteFireAndForget ==
    [][\A t \in Threads :
        /\ (variant = "remote" /\ pc[t] = "idle" /\ pc'[t] # "idle") =>
              \/ pc'[t] = "rlock" /\ site'[t] = "set" /\ size'[t] > 0
                    /\ inflight' = inflight
              \/ ~ValidWrite(t)
        /\ (site[t] = "set" /\ pc[t] = "rlock" /\ pc'[t] # "rlock") =>
              /\ pc'[t] = "synch"
              /\ inflight' = inflight \cup {<<t, Pdu(t)>>}
        /\ (site[t] = "set" /\ pc[t] = "synch") =>
              \A r \in SeenResponses("set") :
                  SnmpSynchWith(t, r) =>
                      /\ pc'[t] = "done"
                      /\ ret'[t] = size[t]
                      /\ inflight' = inflight \ {<<t, Pdu(t)>>}
      ]_vars

\* a write that asked for on has returned its full length, and the relay is
\* not on at the device
C14_Witness ==
    /\ variant = "remote"
    /\ \E t \in Threads :
        /\ pc[t] = "done"
        /\ site[t] = "set"
        /\ ch[t] >= 0
        /\ ret[t] = MaxSize
        /\ val[t] = relay_on
        /\ oids[ch[t]] \notin mib

\* the address of channel i
Address(i) == <<1, 3, 6, 1, 4, 1, 19865, 1, 2, (i \div 8) + 1, (i % 8) + 1, 0>>

\* C15: dkrfs: for every channel index i of the table (0..15 at most) the
\* address used for get and set is 1.3.6.1.4.1.19865.1.2.bank.offset.0 with
\* bank = i/8 + 1 and offset = i%8 + 1; distinct indices have distinct
\* addresses; the table is never modified after startup.
C15_AddressTable ==
    /\ [](variant = "remote" =>
            /\ DOMAIN oids = 0..(num_relays - 1)
            /\ num_relays <= 16
            /\ \A i \in DOMAIN oids : oids[i] = Address(i)
            /\ \A i, j \in DOMAIN oids : oids[i] = oids[j] => i = j
            /\ \A x \in inflight : x[2][2] = Address(ch[x[1]]))
    /\ [][oids' = oids]_vars

\* a request for channel index 8, the first of the second bank, is in flight
C15_Witness ==
    /\ variant = "remote"
    /\ num_relays = 16
    /\ \E t \in Threads :
        /\ pc[t] = "synch"
        /\ ch[t] = 8
        /\ <<t, Pdu(t)>> \in inflight
        /\ Pdu(t)[2] = <<1, 3, 6, 1, 4, 1, 19865, 1, 2, 2, 1, 0>>

\* thread t reads the cached state of its channel: line 327 of _read, line
\* 237 of _switch_relay
ReadsCache(t) ==
    /\ variant = "serial"
    /\ \/ pc[t] = "rd" /\ pc'[t] = "done"
       \/ pc[t] = "check" /\ pc'[t] # "check"

\* C16: udinfs: every read of a channel's cached state by get or set is
\* made under the lock, so no caller observes or acts on a cached value
\* while another caller is inside its command and verification section.
C16_CacheUnderLock ==
    [][\A t \in Threads :
        ReadsCache(t) => \A u \in Threads \ {t} : mutex # u /\ ~InSection(u)
      ]_vars

\* _getattr, line 281: the last-modified time it reports for a channel
GetattrMtime(rel, channel) == rel[channel].mtime

\* C17: udinfs: after a set has changed the cached state of channel i, the
\* last-modified time reported for channel i is the time of that write, no
\* earlier than the time reported before, and the time reported for every
\* other channel is as it was.
C17_MtimeOnWrite ==
    [][\A t \in Threads :
        (/\ variant = "serial"
         /\ site[t] = "sw"
         /\ relays'[ch[t]].state # relays[ch[t]].state)
        => /\ GetattrMtime(relays', ch[t]) = Now
           /\ GetattrMtime(relays', ch[t]) >= GetattrMtime(relays, ch[t])
           /\ \A k \in DOMAIN relays \ {ch[t]} :
                 GetattrMtime(relays', k) = GetattrMtime(relays, k)
      ]_vars

\* the _send_command call of thread p returns r at this step
Returns(p, r) ==
    /\ Len(sent'[p]) = Len(sent[p]) + 1
    /\ sent'[p][Len(sent'[p])].ret = r

\* C18: udinfs: _send_command returns failure whenever the line echoed by
\* the device differs from the command sent (or no line is echoed), and then
\* reads no response line; it returns success only if the write was complete,
\* the echo matched the command, and, when a response is expected, a line
\* ended by CR LF was read as the response.
C18_SendCommand ==
    [][/\ \A p \in Threads :
            /\ (variant = "serial" /\ pc[p] = "echo") =>
                  \A r \in EchoResults(Cmd(p)) \ {GoodEcho(Cmd(p))} :
                      DevReadEchoWith(p, r) =>
                          /\ Returns(p, -1)
                          /\ pc'[p] # "resp"
                          /\ <<p, Cmd(p)>> \notin inflight'
            /\ (variant = "serial" /\ Returns(p, 0)) =>
                  \/ /\ ~HasResponse(site[p])
                     /\ DevReadEchoWith(p, GoodEcho(Cmd(p)))
                  \/ /\ HasResponse(site[p])
                     /\ \E r \in StateResults :
                          /\ r.n >= 2
                          /\ r.data[r.n - 1] = CR
                          /\ r.data[r.n] = LF
                          /\ DevReadRespWith(p, r)
       /\ \A p \in Procs :
            /\ (variant = "serial" /\ pc[p] # "echo" /\ pc'[p] = "echo") =>
                  \E obeys \in BOOLEAN : DevWriteWith(p, Len(Cmd(p)) + 1, obeys)
            /\ (variant = "serial" /\ pc[p] # "resp" /\ pc'[p] = "resp") =>
                  DevReadEchoWith(p, GoodEcho(Cmd(p)))
            /\ (variant = "serial" /\ p = 0 /\ site[p] = "id" /\ pc[p] = "echo") =>
                  \A r \in EchoResults(Cmd(p)) \ {GoodEcho(Cmd(p))} :
                      DevReadEchoWith(p, r) =>
                          /\ pc'[p] = "ready"
                          /\ ttyfd' = -1
                          /\ inflight' = {}
      ]_vars

\* the switch command of a set was answered by a wrong echo, and its
\* verification query by a proper echo and a proper line
C18_Witness ==
    /\ variant = "serial"
    /\ \E t \in Threads :
        /\ pc[t] = "verify"
        /\ sent[t] = << [ret |-> -1, err |-> "protocol"],
                        [ret |-> 0, err |-> "none"] >>

\* thread t is in a _write call that has not returned
InWrite(t) ==
    /\ variant = "serial"
    /\ pc[t] \in {"check", "lock", "write", "pwrite", "echo", "resp", "verify"}

Identified ==
    /\ variant = "serial"
    /\ pc[0] = "ready"
    /\ ttyfd # -1

\* C20: udinfs: while the device has echoed every command, obeyed every
\* switch command and reported its true aggregate state, and every write()
\* and read() has gone through, N stays the channel count of the identified
\* model under any interleaving of sets, and whenever the mutex is free the
\* cached state of every channel below N is the state of the device's relay.
C20_NoFalseCollapse ==
    (Identified /\ ~fault) =>
        /\ num_relays = DeviceInfo[1].num_relays
        /\ mutex = 0 =>
              \A k \in 0..(num_relays - 1) :
                  (relays[k].state # relay_off) = BitSet(dev, k)

\* the mutex is free after a set of one thread has returned, while the
\* other thread waits at the mutex to set the same channel the other way,
\* and nothing has gone wrong
C20_Witness ==
    /\ Identified
    /\ ~fault
    /\ mutex = 0
    /\ \E t, u \in Threads :
        /\ pc[t] = "done"
        /\ lastSet = <<ch[t], val[t]>>
        /\ pc[u] = "lock"
        /\ ch[u] = ch[t]
        /\ val[u] # val[t]

\* C21: udinfs: in every reachable state N is 0 or the channel count of the
\* identified model, and at most 8; N becomes nonzero only when _init
\* identifies the device, after that it changes only from that count to 0,
\* at the end of a set's verification, and once N is 0 after startup no step
\* of a get or a set makes it nonzero again.
C21_CountOrZero ==
    /\ [](variant = "serial" =>
            /\ num_relays \in {0, DeviceInfo[1].num_relays}
            /\ num_relays <= 8)
    /\ [][(variant = "serial" /\ num_relays' # num_relays) =>
            \/ /\ pc[0] = "resp"
               /\ site[0] = "id"
               /\ num_relays = 0
               /\ num_relays' = DeviceInfo[1].num_relays
            \/ /\ pc[0] = "ready"
               /\ num_relays = DeviceInfo[1].num_relays
               /\ num_relays' = 0
               /\ \E t \in Threads : pc[t] = "verify" /\ pc'[t] = "done"]_vars

\* N has collapsed to 0 after identification and a set that was admitted
\* before the collapse is about to run its own verification loop
C21_Witness ==
    /\ Identified
    /\ num_relays = 0
    /\ \E t \in Threads : pc[t] = "verify"

====
